---- MODULE Spec2Model ----
(***************************************************************************)
(* State-machine model of the HX711 driver class in src/hx711-rpi.py.      *)
(*                                                                         *)
(* One instance of HX711 is shared by a set of threads.  Every read or     *)
(* write of an instance attribute, every GPIO call and every lock          *)
(* operation of the source is one step of the thread that executes it.     *)
(* The chip is the environment: it pulls the data line low when a          *)
(* conversion is ready and shifts the conversion out most significant bit  *)
(* first, one bit per clock pulse.                                         *)
(*                                                                         *)
(* Numbers that Python holds as floats (scale, the median of an even       *)
(* number of samples, the weight) are kept as exact fractions <<n, d>>.    *)
(***************************************************************************)
EXTENDS Integers, Sequences, FiniteSets, TLC

\* ------------------------------------------------------------------ bounds
NumThreads == 2
MaxCalls == 2
MaxSamples == 2

\* --------------------------------------------------------- program constants
FrameBits == 24
SignBit == 8388608
LowMask == 8388607

Threads == 1..NumThreads
MainThread == 1
NoThread == 0

ValidGains == {128, 64, 32}
\* gain arguments a caller passes: the three valid ones and an invalid one
GainArgs == {128, 64, 32, 100}
\* conversions the chip delivers (24-bit patterns)
Patterns == {1, 16777215}
\* reference weights a caller passes to calibrate
RefWeights == {0, 2}
\* samples arguments a caller passes to tare and calibrate
SampleArgs == {0, MaxSamples}

HIGH == 1
LOW == 0

VARIABLES
    assigned,      \* names of the instance attributes assigned so far
    gain,          \* self._gain
    offset,        \* self.offset
    scale,         \* self.scale, a fraction <<n, d>>
    power_down,    \* self._power_down
    lock,          \* self._lock: NoThread when free, else the holder
    sck,           \* level of the clock pin
    pinsSetup,     \* GPIO.setup done for both pins
    chipData,      \* the conversion the chip is shifting out
    pc,            \* per thread: position in the code
    stack,         \* per thread: return positions of the calls in progress
    arg,           \* per thread: the operation's argument
    nsamp,         \* per thread: the samples argument of tare/calibrate
    pdval,         \* per thread: the value parameter of the power_down setter
    fr,            \* per thread: locals of _read_raw
    raw,           \* per thread: value returned by the last _read_raw
    values,        \* per thread: the list built by tare/calibrate
    result,        \* per thread: outcome of the last completed operation
    calls,         \* number of public operations the callers have invoked so far
    lastDriver,    \* history: the thread that last wrote the clock pin
    lastPowerEdge, \* history: last power transition driven on the clock pin
    log,           \* history, per thread: frames read during the operation
    lastSet,       \* history, per thread: last gain a gain-set call returned for
    latchedPulses  \* history: number of trailing pulses of the last frame read

devVars == <<assigned, gain, offset, scale, power_down>>
histVars == <<lastDriver, lastPowerEdge>>
gpioVars == <<sck, pinsSetup, chipData>>
frameVars == <<fr, raw>>
callVars == <<arg, nsamp, result, calls, lastSet>>
vars == <<assigned, gain, offset, scale, power_down, lock, sck, pinsSetup,
          chipData, pc, stack, arg, nsamp, pdval, fr, raw, values, result,
          calls, lastDriver, lastPowerEdge, log, lastSet, latchedPulses>>

\* ------------------------------------------------------------- arithmetic
Abs(n) == IF n < 0 THEN -n ELSE n

RECURSIVE Gcd(_, _)
Gcd(a, b) == IF b = 0 THEN a ELSE Gcd(b, a % b)

\* the fraction n/d in lowest terms with a positive denominator (d # 0)
Frac(n, d) ==
    LET g == Gcd(Abs(n), Abs(d))
        s == IF d < 0 THEN -1 ELSE 1
    IN  <<(s * n) \div g, (s * d) \div g>>

\* Python's int(x) of a fraction: truncation toward zero
Trunc(q) == IF q[1] >= 0 THEN q[1] \div q[2] ELSE -((-q[1]) \div q[2])

\* x / y for fractions, y # 0
FracDiv(x, y) == Frac(x[1] * y[2], x[2] * y[1])

RECURSIVE Insert(_, _)
Insert(x, s) ==
    IF s = <<>> THEN <<x>>
    ELSE IF x <= Head(s) THEN <<x>> \o s
    ELSE <<Head(s)>> \o Insert(x, Tail(s))

\* (variant: the list is taken in the order read)
SortedAsRead(s) == s

RECURSIVE Sorted(_)
Sorted(s) == IF s = <<>> THEN <<>> ELSE Insert(Head(s), Sorted(Tail(s)))

\* statistics.median of a non-empty list of integers
Median(s) ==
    LET t == Sorted(s)
        n == Len(t)
    IN  IF n % 2 = 1 THEN <<t[(n + 1) \div 2], 1>>
        ELSE Frac(t[n \div 2] + t[n \div 2 + 1], 2)

RECURSIVE Pow2(_)
Pow2(k) == IF k = 0 THEN 1 ELSE 2 * Pow2(k - 1)

\* bit k of the non-negative integer p
Bit(p, k) == (p \div Pow2(k)) % 2

\* ----------------------------------------------------------- pure helpers
\* (variant: the pulse counts 1, 1, 2 in the order 128, 64, 32)
GainPulsesByRank(g) == CASE g = 64 -> 1 [] g = 32 -> 2 [] OTHER -> 1

\* lines 66-72: the match on self._gain
GainPulses(g) == CASE g = 64 -> 3 [] g = 32 -> 2 [] OTHER -> 1

\* (variant: the sign bit is masked off and not subtracted)
DecodeUnsigned(value) == value % (LowMask + 1)

\* line 78: -(value & 0x800000) + (value & 0x7fffff)
Decode(value) == -(((value \div SignBit) % 2) * SignBit) + (value % (LowMask + 1))

\* (variant: any positive gain is accepted)
GainOkPositive(value) == value > 0

\* lines 28 and 145: value in (128, 64, 32)
GainOk(value) == value \in {128, 64, 32}

\* locals of _read_raw (i, value, gain_pulses, j) and the history of the
\* frame: pulses issued, bits sampled, the gain the match statement read
NoFrame ==
    [i |-> 0, value |-> 0, gain_pulses |-> 0, j |-> 0,
     pulses |-> 0, bits |-> <<>>, gain_seen |-> 0]
\* outcomes of a call; val is the returned number as a fraction
NoResult == [op |-> "none", kind |-> "none", val |-> <<0, 1>>]
Returned(o, v) == [op |-> o, kind |-> "ok", val |-> v]
Raised(o, e) == [op |-> o, kind |-> e, val |-> <<0, 1>>]

\* ------------------------------------------------------------------- Init
\* The constructor is about to run in the main thread with any gain argument.
Init ==
    /\ assigned = {}
    /\ gain = 0
    /\ offset = 0
    /\ scale = <<0, 1>>
    /\ power_down = FALSE
    /\ lock = NoThread
    /\ sck = LOW
    /\ pinsSetup = FALSE
    /\ chipData = 0
    /\ pc = [t \in Threads |-> IF t = MainThread THEN "init_pins" ELSE "unborn"]
    /\ stack = [t \in Threads |-> <<>>]
    /\ arg \in [Threads -> GainArgs]
    /\ \A t \in Threads : t # MainThread => arg[t] = 128
    /\ nsamp = [t \in Threads |-> 0]
    /\ pdval = [t \in Threads |-> FALSE]
    /\ fr = [t \in Threads |-> NoFrame]
    /\ raw = [t \in Threads |-> 0]
    /\ values = [t \in Threads |-> <<>>]
    /\ result = [t \in Threads |-> NoResult]
    /\ calls = 0
    /\ lastDriver = NoThread
    /\ lastPowerEdge = "none"
    /\ log = [t \in Threads |-> <<>>]
    /\ lastSet = [t \in Threads |-> 0]
    /\ latchedPulses = 0

\* ------------------------------------------------------------ call helpers
Goto(t, l) == pc' = [pc EXCEPT ![t] = l]

\* enter a method at position entry; it returns to position back
CallSub(t, entry, back) ==
    /\ pc' = [pc EXCEPT ![t] = entry]
    /\ stack' = [stack EXCEPT ![t] = <<back>> \o stack[t]]

\* (variant: the block is entered without waiting for the lock)
AcquireLockNoWait(t) == lock' = t

\* `with self._lock:` entry; threading.Lock is not reentrant
AcquireLock(t) == lock = NoThread /\ lock' = t

\* (variant: the lock is not given back at the end of the block)
ReleaseLockKept(t) == lock' = lock

\* `with self._lock:` exit
ReleaseLock(t) == lock' = NoThread

\* GPIO.output(self.sck, level)
WriteSck(t, level) == sck' = level /\ lastDriver' = t

\* what a frame is read for, by the position _read_raw returns to
FrameKind(back) ==
    CASE back = "pd_up_rel" -> "wake"
      [] back \in {"init_done", "gs_rel"} -> "flush"
      [] OTHER -> "sample"

\* a public operation ends: the thread is free for its next call
\* and its locals are gone
Finish(t, r) ==
    /\ pc' = [pc EXCEPT ![t] = "idle"]
    /\ result' = [result EXCEPT ![t] = r]
    /\ arg' = [arg EXCEPT ![t] = 0]
    /\ nsamp' = [nsamp EXCEPT ![t] = 0]
    /\ values' = [values EXCEPT ![t] = <<>>]
    /\ log' = [log EXCEPT ![t] = <<>>]

\* ------------------------------------------------------------ __init__
\* lines 26-27
InitPins(t) ==
    /\ pc[t] = "init_pins"
    /\ assigned' = assigned \cup {"dt", "sck"}
    /\ Goto(t, "init_check")
    /\ UNCHANGED <<gain, offset, scale, power_down, lock, gpioVars, stack,
                   callVars, pdval, frameVars, values, histVars, log, latchedPulses>>

\* lines 28-29
InitCheck(t) ==
    /\ pc[t] = "init_check"
    /\ IF GainOk(arg[t])
       THEN Goto(t, "init_fields") /\ UNCHANGED result
       ELSE /\ Goto(t, "failed")
            /\ result' = [result EXCEPT ![t] = Raised("init", "ValueError")]
    /\ UNCHANGED <<devVars, lock, gpioVars, stack, arg, nsamp, calls,
                   lastSet, pdval, frameVars, values, histVars, log, latchedPulses>>

\* lines 30-34
InitFields(t) ==
    /\ pc[t] = "init_fields"
    /\ gain' = arg[t]
    /\ offset' = 0
    /\ scale' = <<1, 1>>
    /\ power_down' = FALSE
    /\ lock' = NoThread
    /\ assigned' = assigned \cup {"_gain", "offset", "scale", "_power_down", "_lock"}
    /\ Goto(t, "init_gpio")
    /\ UNCHANGED <<gpioVars, stack, callVars, pdval, frameVars, values,
                   histVars, log, latchedPulses>>

\* lines 36-38
InitGpio(t) ==
    /\ pc[t] = "init_gpio"
    /\ pinsSetup' = TRUE
    /\ WriteSck(t, LOW)
    /\ Goto(t, "init_read")
    /\ UNCHANGED <<devVars, lock, chipData, stack, callVars, pdval, frameVars,
                   values, lastPowerEdge, log, latchedPulses>>

\* line 40: the call of _read_raw, made without the lock
InitRead(t) ==
    /\ pc[t] = "init_read"
    /\ CallSub(t, "rr_wait", "init_done")
    /\ UNCHANGED <<devVars, lock, gpioVars, callVars, pdval, frameVars,
                   values, histVars, log, latchedPulses>>

\* line 40, after _read_raw returned: the instance exists, threads may use it
InitDone(t) ==
    /\ pc[t] = "init_done"
    /\ pc' = [u \in Threads |-> "idle"]
    /\ result' = [result EXCEPT ![t] = Returned("init", <<0, 1>>)]
    /\ arg' = [arg EXCEPT ![t] = 0]
    /\ raw' = [raw EXCEPT ![t] = 0]
    /\ log' = [log EXCEPT ![t] = <<>>]
    /\ UNCHANGED <<devVars, lock, gpioVars, stack, nsamp, calls, lastSet,
                   pdval, fr, values, histVars, latchedPulses>>

\* ------------------------------------------------------------ _read_raw
\* lines 54-55: the data line reads high, sleep and look again
RrSleep(t) ==
    /\ pc[t] = "rr_wait"
    /\ UNCHANGED vars

\* lines 54 and 58: the data line reads low; the chip holds a conversion
RrReady(t) ==
    /\ pc[t] = "rr_wait"
    /\ \E p \in Patterns : chipData' = p
    /\ fr' = [fr EXCEPT ![t] = NoFrame]
    /\ Goto(t, "rr_high")
    /\ UNCHANGED <<devVars, lock, sck, pinsSetup, stack, callVars, pdval, raw,
                   values, histVars, log, latchedPulses>>

\* line 60
RrHigh(t) ==
    /\ pc[t] = "rr_high"
    /\ WriteSck(t, HIGH)
    /\ Goto(t, "rr_low")
    /\ UNCHANGED <<devVars, lock, pinsSetup, chipData, stack, callVars, pdval,
                   frameVars, values, lastPowerEdge, log, latchedPulses>>

\* line 61
RrLow(t) ==
    /\ pc[t] = "rr_low"
    /\ WriteSck(t, LOW)
    /\ fr' = [fr EXCEPT ![t].pulses = @ + 1]
    /\ Goto(t, "rr_sample")
    /\ UNCHANGED <<devVars, lock, pinsSetup, chipData, stack, callVars, pdval,
                   raw, values, lastPowerEdge, log, latchedPulses>>

\* lines 62-63 and the loop test of line 59; after the last bit the chip
\* has shifted its conversion out
RrSample(t) ==
    /\ pc[t] = "rr_sample"
    /\ LET bit == Bit(chipData, FrameBits - 1 - fr[t].i)
       IN  fr' = [fr EXCEPT ![t].value = 2 * @ + bit,
                            ![t].i = @ + 1,
                            ![t].bits = Append(@, bit)]
    /\ Goto(t, IF fr[t].i + 1 < FrameBits THEN "rr_high" ELSE "rr_match")
    /\ chipData' = IF fr[t].i + 1 < FrameBits THEN chipData ELSE 0
    /\ UNCHANGED <<devVars, lock, sck, pinsSetup, stack, callVars, pdval, raw,
                   values, histVars, log, latchedPulses>>

\* lines 66-73
RrMatch(t) ==
    /\ pc[t] = "rr_match"
    /\ fr' = [fr EXCEPT ![t].gain_pulses = GainPulses(gain), ![t].j = 0,
                         ![t].gain_seen = gain]
    /\ Goto(t, IF GainPulses(gain) > 0 THEN "rr_ghigh" ELSE "rr_decode")
    /\ UNCHANGED <<devVars, lock, gpioVars, stack, callVars, pdval, raw,
                   values, histVars, log, latchedPulses>>

\* line 74
RrGainHigh(t) ==
    /\ pc[t] = "rr_ghigh"
    /\ WriteSck(t, HIGH)
    /\ Goto(t, "rr_glow")
    /\ UNCHANGED <<devVars, lock, pinsSetup, chipData, stack, callVars, pdval,
                   frameVars, values, lastPowerEdge, log, latchedPulses>>

\* line 75 and the loop test of line 73
RrGainLow(t) ==
    /\ pc[t] = "rr_glow"
    /\ WriteSck(t, LOW)
    /\ fr' = [fr EXCEPT ![t].pulses = @ + 1, ![t].j = @ + 1]
    /\ Goto(t, IF fr[t].j + 1 < fr[t].gain_pulses THEN "rr_ghigh" ELSE "rr_decode")
    /\ UNCHANGED <<devVars, lock, pinsSetup, chipData, stack, callVars, pdval,
                   raw, values, lastPowerEdge, log, latchedPulses>>

\* lines 78-80: decode, return to the caller
RrDecode(t) ==
    /\ pc[t] = "rr_decode"
    /\ raw' = [raw EXCEPT ![t] = Decode(fr[t].value)]
    /\ fr' = [fr EXCEPT ![t] = NoFrame]
    /\ log' = [log EXCEPT ![t] =
                 Append(@, [kind |-> FrameKind(Head(stack[t])),
                            val |-> Decode(fr[t].value)])]
    /\ latchedPulses' = fr[t].pulses - FrameBits
    /\ pc' = [pc EXCEPT ![t] = Head(stack[t])]
    /\ stack' = [stack EXCEPT ![t] = Tail(@)]
    /\ UNCHANGED <<devVars, lock, gpioVars, callVars, pdval, values, histVars>>

ReadRaw(t) ==
    \/ RrSleep(t)
    \/ RrReady(t)
    \/ RrHigh(t)
    \/ RrLow(t)
    \/ RrSample(t)
    \/ RrMatch(t)
    \/ RrGainHigh(t)
    \/ RrGainLow(t)
    \/ RrDecode(t)

Construct(t) ==
    \/ InitPins(t)
    \/ InitCheck(t)
    \/ InitFields(t)
    \/ InitGpio(t)
    \/ InitRead(t)
    \/ InitDone(t)

\* ------------------------------------------------- the public operations
\* a caller invokes a public method on the constructed instance
\* (the first log entry records the power state the call found)
Begin(t, a, n, entry) ==
    /\ pc[t] = "idle"
    /\ calls < MaxCalls
    /\ calls' = calls + 1
    /\ arg' = [arg EXCEPT ![t] = a]
    /\ nsamp' = [nsamp EXCEPT ![t] = n]
    /\ result' = [result EXCEPT ![t] = NoResult]
    /\ log' = [log EXCEPT ![t] =
                 <<[kind |-> IF power_down THEN "down" ELSE "active", val |-> 0]>>]
    /\ Goto(t, entry)

\* (variant: the power-down flag is not looked at)
AutoWakeNever(t, next) ==
    /\ Goto(t, next)
    /\ UNCHANGED <<devVars, lock, gpioVars, stack, callVars, pdval, frameVars,
                   values, histVars, log, latchedPulses>>

\* `if self._power_down: self.power_down = False` (lines 93-94, 112-113,
\* 125-126, 150-151), then go on at position next
AutoWake(t, next) ==
    /\ IF power_down
       THEN /\ pdval' = [pdval EXCEPT ![t] = FALSE]
            /\ CallSub(t, "pd_cmp", next)
       ELSE /\ Goto(t, next)
            /\ UNCHANGED <<pdval, stack>>
    /\ UNCHANGED <<devVars, lock, gpioVars, callVars, frameVars, values,
                   histVars, log, latchedPulses>>

\* ---- power_down setter, lines 165-179
\* (variant: the early return of lines 168-169 is missing)
PdCmpAlways(t) ==
    /\ pc[t] = "pd_cmp"
    /\ Goto(t, IF pdval[t] THEN "pd_down_acq" ELSE "pd_up_acq")
    /\ UNCHANGED <<devVars, lock, gpioVars, stack, callVars, pdval, frameVars,
                   values, histVars, log, latchedPulses>>

\* lines 167-170
PdCmp(t) ==
    /\ pc[t] = "pd_cmp"
    /\ IF pdval[t] = power_down
       THEN /\ pc' = [pc EXCEPT ![t] = Head(stack[t])]
            /\ stack' = [stack EXCEPT ![t] = Tail(@)]
            /\ pdval' = [pdval EXCEPT ![t] = FALSE]
       ELSE /\ Goto(t, IF pdval[t] THEN "pd_down_acq" ELSE "pd_up_acq")
            /\ UNCHANGED <<stack, pdval>>
    /\ UNCHANGED <<devVars, lock, gpioVars, callVars, frameVars, values,
                   histVars, log, latchedPulses>>

\* line 171
PdDownAcquire(t) ==
    /\ pc[t] = "pd_down_acq"
    /\ AcquireLock(t)
    /\ Goto(t, "pd_down_low")
    /\ UNCHANGED <<devVars, gpioVars, stack, callVars, pdval, frameVars,
                   values, histVars, log, latchedPulses>>

\* line 172
PdDownLow(t) ==
    /\ pc[t] = "pd_down_low"
    /\ WriteSck(t, LOW)
    /\ Goto(t, "pd_down_high")
    /\ UNCHANGED <<devVars, lock, pinsSetup, chipData, stack, callVars, pdval,
                   frameVars, values, lastPowerEdge, log, latchedPulses>>

\* line 173
PdDownHigh(t) ==
    /\ pc[t] = "pd_down_high"
    /\ WriteSck(t, HIGH)
    /\ lastPowerEdge' = "down"
    /\ Goto(t, "pd_down_rel")
    /\ UNCHANGED <<devVars, lock, pinsSetup, chipData, stack, callVars, pdval,
                   frameVars, values, log, latchedPulses>>

\* line 174 and the end of the with block
PdDownRelease(t) ==
    /\ pc[t] = "pd_down_rel"
    /\ ReleaseLock(t)
    /\ Goto(t, "pd_store")
    /\ UNCHANGED <<devVars, gpioVars, stack, callVars, pdval, frameVars,
                   values, histVars, log, latchedPulses>>

\* line 176
PdUpAcquire(t) ==
    /\ pc[t] = "pd_up_acq"
    /\ AcquireLock(t)
    /\ Goto(t, "pd_up_low")
    /\ UNCHANGED <<devVars, gpioVars, stack, callVars, pdval, frameVars,
                   values, histVars, log, latchedPulses>>

\* line 177
PdUpLow(t) ==
    /\ pc[t] = "pd_up_low"
    /\ WriteSck(t, LOW)
    /\ lastPowerEdge' = "wake"
    /\ Goto(t, "pd_up_read")
    /\ UNCHANGED <<devVars, lock, pinsSetup, chipData, stack, callVars, pdval,
                   frameVars, values, log, latchedPulses>>

\* line 178: the call of _read_raw
PdUpRead(t) ==
    /\ pc[t] = "pd_up_read"
    /\ CallSub(t, "rr_wait", "pd_up_rel")
    /\ UNCHANGED <<devVars, lock, gpioVars, callVars, pdval, frameVars,
                   values, histVars, log, latchedPulses>>

\* the end of the with block of line 176
PdUpRelease(t) ==
    /\ pc[t] = "pd_up_rel"
    /\ ReleaseLock(t)
    /\ raw' = [raw EXCEPT ![t] = 0]
    /\ Goto(t, "pd_store")
    /\ UNCHANGED <<devVars, gpioVars, stack, callVars, pdval, fr, values,
                   histVars, log, latchedPulses>>

\* line 179, and the return to the caller
PdStore(t) ==
    /\ pc[t] = "pd_store"
    /\ power_down' = pdval[t]
    /\ pdval' = [pdval EXCEPT ![t] = FALSE]
    /\ pc' = [pc EXCEPT ![t] = Head(stack[t])]
    /\ stack' = [stack EXCEPT ![t] = Tail(@)]
    /\ UNCHANGED <<assigned, gain, offset, scale, lock, gpioVars, callVars,
                   frameVars, values, histVars, log, latchedPulses>>

\* a caller assigns the power_down property
CallPdSet(t) ==
    /\ \E v \in BOOLEAN :
         /\ Begin(t, IF v THEN 1 ELSE 0, 0, "pd_cmp")
         /\ pdval' = [pdval EXCEPT ![t] = v]
    /\ stack' = [stack EXCEPT ![t] = <<"pd_done">>]
    /\ UNCHANGED <<devVars, lock, gpioVars, lastSet, frameVars, values, histVars, latchedPulses>>

\* the assignment statement of the caller is complete
PdDone(t) ==
    /\ pc[t] = "pd_done"
    /\ Finish(t, Returned("pd_set", <<arg[t], 1>>))
    /\ UNCHANGED <<devVars, lock, gpioVars, stack, calls, lastSet, pdval,
                   frameVars, histVars, latchedPulses>>

\* power_down getter, lines 155-163
PdGet(t) ==
    /\ pc[t] = "idle"
    /\ calls < MaxCalls
    /\ calls' = calls + 1
    /\ result' = [result EXCEPT ![t] =
                    Returned("pd_get", <<IF power_down THEN 1 ELSE 0, 1>>)]
    /\ UNCHANGED <<devVars, lock, gpioVars, pc, stack, arg, nsamp, lastSet,
                   pdval, frameVars, values, histVars, log, latchedPulses>>

PowerDown(t) ==
    \/ PdCmp(t)
    \/ PdDownAcquire(t)
    \/ PdDownLow(t)
    \/ PdDownHigh(t)
    \/ PdDownRelease(t)
    \/ PdUpAcquire(t)
    \/ PdUpLow(t)
    \/ PdUpRead(t)
    \/ PdUpRelease(t)
    \/ PdStore(t)
    \/ CallPdSet(t)
    \/ PdDone(t)
    \/ PdGet(t)

\* ---- tare, lines 82-98
CallTare(t) ==
    /\ \E n \in SampleArgs : Begin(t, 0, n, "tare_check")
    /\ UNCHANGED <<devVars, lock, gpioVars, stack, lastSet, pdval, frameVars,
                   values, histVars, latchedPulses>>

\* lines 93-94
TareCheck(t) == pc[t] = "tare_check" /\ AutoWake(t, "tare_acq")

\* line 95
TareAcquire(t) ==
    /\ pc[t] = "tare_acq"
    /\ AcquireLock(t)
    /\ Goto(t, "tare_loop")
    /\ UNCHANGED <<devVars, gpioVars, stack, callVars, pdval, frameVars,
                   values, histVars, log, latchedPulses>>

\* line 96: the comprehension's loop test and the call of _read_raw
TareLoop(t) ==
    /\ pc[t] = "tare_loop"
    /\ IF Len(values[t]) < nsamp[t]
       THEN CallSub(t, "rr_wait", "tare_got")
       ELSE Goto(t, "tare_rel") /\ UNCHANGED stack
    /\ UNCHANGED <<devVars, lock, gpioVars, callVars, pdval, frameVars,
                   values, histVars, log, latchedPulses>>

\* line 96: the value read joins the list
TareGot(t) ==
    /\ pc[t] = "tare_got"
    /\ values' = [values EXCEPT ![t] = Append(@, raw[t])]
    /\ raw' = [raw EXCEPT ![t] = 0]
    /\ Goto(t, "tare_loop")
    /\ UNCHANGED <<devVars, lock, gpioVars, stack, callVars, pdval, fr,
                   histVars, log, latchedPulses>>

\* the end of the with block of line 95
TareRelease(t) ==
    /\ pc[t] = "tare_rel"
    /\ ReleaseLock(t)
    /\ Goto(t, "tare_store")
    /\ UNCHANGED <<devVars, gpioVars, stack, callVars, pdval, frameVars,
                   values, histVars, log, latchedPulses>>

\* line 97; statistics.median raises StatisticsError on an empty list
TareStore(t) ==
    /\ pc[t] = "tare_store"
    /\ IF values[t] = <<>>
       THEN /\ Finish(t, Raised("tare", "StatisticsError"))
            /\ UNCHANGED offset
       ELSE /\ offset' = Trunc(Median(values[t]))
            /\ Goto(t, "tare_ret")
            /\ UNCHANGED <<result, arg, nsamp, values, log>>
    /\ UNCHANGED <<assigned, gain, scale, power_down, lock, gpioVars, stack,
                   calls, lastSet, pdval, frameVars, histVars, latchedPulses>>

\* line 98
TareReturn(t) ==
    /\ pc[t] = "tare_ret"
    /\ Finish(t, Returned("tare", <<offset, 1>>))
    /\ UNCHANGED <<devVars, lock, gpioVars, stack, calls, lastSet, pdval,
                   frameVars, histVars, latchedPulses>>

Tare(t) ==
    \/ CallTare(t)
    \/ TareCheck(t)
    \/ TareAcquire(t)
    \/ TareLoop(t)
    \/ TareGot(t)
    \/ TareRelease(t)
    \/ TareStore(t)
    \/ TareReturn(t)

\* ---- calibrate, lines 100-117
CallCalibrate(t) ==
    /\ \E n \in SampleArgs, w \in RefWeights : Begin(t, w, n, "cal_check")
    /\ UNCHANGED <<devVars, lock, gpioVars, stack, lastSet, pdval, frameVars,
                   values, histVars, latchedPulses>>

\* lines 112-113
CalCheck(t) == pc[t] = "cal_check" /\ AutoWake(t, "cal_acq")

\* line 114
CalAcquire(t) ==
    /\ pc[t] = "cal_acq"
    /\ AcquireLock(t)
    /\ Goto(t, "cal_loop")
    /\ UNCHANGED <<devVars, gpioVars, stack, callVars, pdval, frameVars,
                   values, histVars, log, latchedPulses>>

\* line 115: the comprehension's loop test and the call of _read_raw
CalLoop(t) ==
    /\ pc[t] = "cal_loop"
    /\ IF Len(values[t]) < nsamp[t]
       THEN CallSub(t, "rr_wait", "cal_got")
       ELSE Goto(t, "cal_rel") /\ UNCHANGED stack
    /\ UNCHANGED <<devVars, lock, gpioVars, callVars, pdval, frameVars,
                   values, histVars, log, latchedPulses>>

\* line 115: self.offset is read after _read_raw returned
CalGot(t) ==
    /\ pc[t] = "cal_got"
    /\ values' = [values EXCEPT ![t] = Append(@, raw[t] - offset)]
    /\ raw' = [raw EXCEPT ![t] = 0]
    /\ Goto(t, "cal_loop")
    /\ UNCHANGED <<devVars, lock, gpioVars, stack, callVars, pdval, fr,
                   histVars, log, latchedPulses>>

\* the end of the with block of line 114
CalRelease(t) ==
    /\ pc[t] = "cal_rel"
    /\ ReleaseLock(t)
    /\ Goto(t, "cal_store")
    /\ UNCHANGED <<devVars, gpioVars, stack, callVars, pdval, frameVars,
                   values, histVars, log, latchedPulses>>

\* (variant: the division by a zero reference weight yields infinity)
CalStoreInfinite(t) ==
    /\ pc[t] = "cal_store"
    /\ IF values[t] = <<>>
       THEN /\ Finish(t, Raised("calibrate", "StatisticsError"))
            /\ UNCHANGED scale
       ELSE /\ scale' = IF arg[t] = 0 THEN <<1, 0>>
                        ELSE FracDiv(Median(values[t]), <<arg[t], 1>>)
            /\ Goto(t, "cal_ret")
            /\ UNCHANGED <<result, arg, nsamp, values, log>>
    /\ UNCHANGED <<assigned, gain, offset, power_down, lock, gpioVars, stack,
                   calls, lastSet, pdval, frameVars, histVars, latchedPulses>>

\* line 116: median first (StatisticsError on an empty list), then the
\* division (ZeroDivisionError on a zero reference weight)
CalStore(t) ==
    /\ pc[t] = "cal_store"
    /\ IF values[t] = <<>>
       THEN /\ Finish(t, Raised("calibrate", "StatisticsError"))
            /\ UNCHANGED scale
       ELSE IF arg[t] = 0
       THEN /\ Finish(t, Raised("calibrate", "ZeroDivisionError"))
            /\ UNCHANGED scale
       ELSE /\ scale' = FracDiv(Median(values[t]), <<arg[t], 1>>)
            /\ Goto(t, "cal_ret")
            /\ UNCHANGED <<result, arg, nsamp, values, log>>
    /\ UNCHANGED <<assigned, gain, offset, power_down, lock, gpioVars, stack,
                   calls, lastSet, pdval, frameVars, histVars, latchedPulses>>

\* line 117
CalReturn(t) ==
    /\ pc[t] = "cal_ret"
    /\ Finish(t, Returned("calibrate", scale))
    /\ UNCHANGED <<devVars, lock, gpioVars, stack, calls, lastSet, pdval,
                   frameVars, histVars, latchedPulses>>

Calibrate(t) ==
    \/ CallCalibrate(t)
    \/ CalCheck(t)
    \/ CalAcquire(t)
    \/ CalLoop(t)
    \/ CalGot(t)
    \/ CalRelease(t)
    \/ CalStore(t)
    \/ CalReturn(t)

\* ---- get_weight, lines 119-128
CallGetWeight(t) ==
    /\ Begin(t, 0, 0, "gw_check")
    /\ UNCHANGED <<devVars, lock, gpioVars, stack, lastSet, pdval, frameVars,
                   values, histVars, latchedPulses>>

\* lines 125-126
GwCheck(t) == pc[t] = "gw_check" /\ AutoWake(t, "gw_acq")

\* line 127
GwAcquire(t) ==
    /\ pc[t] = "gw_acq"
    /\ AcquireLock(t)
    /\ CallSub(t, "rr_wait", "gw_compute")
    /\ UNCHANGED <<devVars, gpioVars, callVars, pdval, frameVars, values,
                   histVars, log, latchedPulses>>

\* (variant: the offset is not subtracted)
GwComputeNoOffset(t) ==
    /\ pc[t] = "gw_compute"
    /\ result' = [result EXCEPT ![t] =
                    IF scale[1] = 0
                    THEN Raised("get_weight", "ZeroDivisionError")
                    ELSE Returned("get_weight", FracDiv(<<raw[t], 1>>, scale))]
    /\ Goto(t, "gw_rel")
    /\ UNCHANGED <<devVars, lock, gpioVars, stack, arg, nsamp, calls,
                   lastSet, pdval, frameVars, values, histVars, log, latchedPulses>>

\* line 128: (raw - self.offset) / self.scale, ZeroDivisionError when scale is 0
GwCompute(t) ==
    /\ pc[t] = "gw_compute"
    /\ result' = [result EXCEPT ![t] =
                    IF scale[1] = 0
                    THEN Raised("get_weight", "ZeroDivisionError")
                    ELSE Returned("get_weight", FracDiv(<<raw[t] - offset, 1>>, scale))]
    /\ Goto(t, "gw_rel")
    /\ UNCHANGED <<devVars, lock, gpioVars, stack, arg, nsamp, calls,
                   lastSet, pdval, frameVars, values, histVars, log, latchedPulses>>

\* (variant: the lock is given back on the return only, not on the exception)
GwReleaseOnReturn(t) ==
    /\ pc[t] = "gw_rel"
    /\ lock' = IF result[t].kind = "ok" THEN NoThread ELSE lock
    /\ Finish(t, result[t])
    /\ raw' = [raw EXCEPT ![t] = 0]
    /\ UNCHANGED <<devVars, gpioVars, stack, calls, lastSet, pdval, fr,
                   histVars, latchedPulses>>

\* the with block of line 127 is left, by the return or by the exception
GwRelease(t) ==
    /\ pc[t] = "gw_rel"
    /\ ReleaseLock(t)
    /\ Finish(t, result[t])
    /\ raw' = [raw EXCEPT ![t] = 0]
    /\ UNCHANGED <<devVars, gpioVars, stack, calls, lastSet, pdval, fr,
                   histVars, latchedPulses>>

GetWeight(t) ==
    \/ CallGetWeight(t)
    \/ GwCheck(t)
    \/ GwAcquire(t)
    \/ GwCompute(t)
    \/ GwRelease(t)

\* ---- gain property, lines 130-153
\* the getter, lines 130-141
GainGet(t) ==
    /\ pc[t] = "idle"
    /\ calls < MaxCalls
    /\ calls' = calls + 1
    /\ result' = [result EXCEPT ![t] = Returned("gain_get", <<gain, 1>>)]
    /\ UNCHANGED <<devVars, lock, gpioVars, pc, stack, arg, nsamp, lastSet,
                   pdval, frameVars, values, histVars, log, latchedPulses>>

CallGainSet(t) ==
    /\ \E g \in GainArgs : Begin(t, g, 0, "gs_check")
    /\ UNCHANGED <<devVars, lock, gpioVars, stack, lastSet, pdval, frameVars,
                   values, histVars, latchedPulses>>

\* lines 145-146
GsCheck(t) ==
    /\ pc[t] = "gs_check"
    /\ IF GainOk(arg[t])
       THEN Goto(t, "gs_cmp") /\ UNCHANGED <<result, arg, nsamp, values, log>>
       ELSE Finish(t, Raised("gain_set", "ValueError"))
    /\ UNCHANGED <<devVars, lock, gpioVars, stack, calls, lastSet, pdval,
                   frameVars, histVars, latchedPulses>>

\* (variant: the early return of lines 147-148 is missing)
GsCmpAlways(t) ==
    /\ pc[t] = "gs_cmp"
    /\ Goto(t, "gs_store")
    /\ UNCHANGED <<devVars, lock, gpioVars, stack, callVars, pdval, frameVars,
                   values, histVars, log, latchedPulses>>

\* lines 147-148
GsCmp(t) ==
    /\ pc[t] = "gs_cmp"
    /\ IF arg[t] = gain
       THEN /\ Finish(t, Returned("gain_set", <<arg[t], 1>>))
            /\ lastSet' = [lastSet EXCEPT ![t] = arg[t]]
       ELSE /\ Goto(t, "gs_store")
            /\ UNCHANGED <<result, lastSet, arg, nsamp, values, log>>
    /\ UNCHANGED <<devVars, lock, gpioVars, stack, calls, pdval, frameVars,
                   histVars, latchedPulses>>

\* (variant: the new gain is not stored)
GsStoreLost(t) ==
    /\ pc[t] = "gs_store"
    /\ Goto(t, "gs_pdcheck")
    /\ UNCHANGED <<devVars, lock, gpioVars, stack, callVars, pdval, frameVars,
                   values, histVars, log, latchedPulses>>

\* line 149
GsStore(t) ==
    /\ pc[t] = "gs_store"
    /\ gain' = arg[t]
    /\ Goto(t, "gs_pdcheck")
    /\ UNCHANGED <<assigned, offset, scale, power_down, lock, gpioVars, stack,
                   callVars, pdval, frameVars, values, histVars, log, latchedPulses>>

\* lines 150-151
GsPdCheck(t) == pc[t] = "gs_pdcheck" /\ AutoWake(t, "gs_acq")

\* (variant: the with block of lines 152-153 reads no frame)
GsAcquireNoRead(t) ==
    /\ pc[t] = "gs_acq"
    /\ AcquireLock(t)
    /\ Goto(t, "gs_rel")
    /\ UNCHANGED <<devVars, gpioVars, stack, callVars, pdval, frameVars, values,
                   histVars, log, latchedPulses>>

\* lines 152-153
GsAcquire(t) ==
    /\ pc[t] = "gs_acq"
    /\ AcquireLock(t)
    /\ CallSub(t, "rr_wait", "gs_rel")
    /\ UNCHANGED <<devVars, gpioVars, callVars, pdval, frameVars, values,
                   histVars, log, latchedPulses>>

\* the end of the with block of line 152, and the return
GsRelease(t) ==
    /\ pc[t] = "gs_rel"
    /\ ReleaseLock(t)
    /\ Finish(t, Returned("gain_set", <<arg[t], 1>>))
    /\ lastSet' = [lastSet EXCEPT ![t] = arg[t]]
    /\ raw' = [raw EXCEPT ![t] = 0]
    /\ UNCHANGED <<devVars, gpioVars, stack, calls, pdval, fr, histVars, latchedPulses>>

Gain(t) ==
    \/ GainGet(t)
    \/ CallGainSet(t)
    \/ GsCheck(t)
    \/ GsCmp(t)
    \/ GsStore(t)
    \/ GsPdCheck(t)
    \/ GsAcquire(t)
    \/ GsRelease(t)

\* ------------------------------------------------------- specifications
\* Any number of threads: the main thread constructs the instance, then all
\* threads call its methods in any interleaving.
Next ==
    \E t \in Threads :
        \/ Construct(t)
        \/ ReadRaw(t)
        \/ PowerDown(t)
        \/ Tare(t)
        \/ Calibrate(t)
        \/ GetWeight(t)
        \/ Gain(t)

Spec == Init /\ [][Next]_vars

\* A single caller: the instance is constructed and between operations, with
\* any gain, active or powered down (as tare, the gain setter and the
\* power_down setter leave it), and only the main thread calls its methods.
InitSingle ==
    /\ assigned = {"dt", "sck", "_gain", "offset", "scale", "_power_down", "_lock"}
    /\ gain \in ValidGains
    /\ offset \in {0, 1}
    /\ scale = <<1, 1>>
    /\ power_down \in BOOLEAN
    /\ lock = NoThread
    /\ sck = (IF power_down THEN HIGH ELSE LOW)
    /\ pinsSetup = TRUE
    /\ chipData = 0
    /\ pc = [t \in Threads |-> "idle"]
    /\ stack = [t \in Threads |-> <<>>]
    /\ arg = [t \in Threads |-> 0]
    /\ nsamp = [t \in Threads |-> 0]
    /\ pdval = [t \in Threads |-> FALSE]
    /\ fr = [t \in Threads |-> NoFrame]
    /\ raw = [t \in Threads |-> 0]
    /\ values = [t \in Threads |-> <<>>]
    /\ result = [t \in Threads |-> NoResult]
    /\ calls = 0
    /\ lastDriver = MainThread
    /\ lastPowerEdge = (IF power_down THEN "down" ELSE "none")
    /\ log = [t \in Threads |-> <<>>]
    /\ lastSet = [t \in Threads |-> 0]
    /\ latchedPulses = GainPulses(gain)

NextSingle ==
    \/ ReadRaw(MainThread)
    \/ PowerDown(MainThread)
    \/ Tare(MainThread)
    \/ Calibrate(MainThread)
    \/ GetWeight(MainThread)
    \/ Gain(MainThread)

SpecSingle == InitSingle /\ [][NextSingle]_vars

\* The decode of line 78 on its own: the main thread is inside get_weight,
\* holds the lock and has clocked a whole frame in; the accumulated value is
\* any 24-bit pattern near 0, near the sign bit or near the top.
DecodePatterns ==
    (0..255) \cup ((SignBit - 256)..(SignBit + 255)) \cup ((2 * SignBit - 256)..(2 * SignBit - 1))

InitDecode ==
    /\ assigned = {"dt", "sck", "_gain", "offset", "scale", "_power_down", "_lock"}
    /\ gain \in ValidGains
    /\ offset = 0
    /\ scale = <<1, 1>>
    /\ power_down = FALSE
    /\ lock = MainThread
    /\ sck = LOW
    /\ pinsSetup = TRUE
    /\ chipData = 0
    /\ pc = [t \in Threads |-> IF t = MainThread THEN "rr_decode" ELSE "idle"]
    /\ stack = [t \in Threads |-> IF t = MainThread THEN <<"gw_compute">> ELSE <<>>]
    /\ arg = [t \in Threads |-> 0]
    /\ nsamp = [t \in Threads |-> 0]
    /\ pdval = [t \in Threads |-> FALSE]
    /\ \E p \in DecodePatterns :
         fr = [t \in Threads |->
                 IF t = MainThread
                 THEN [i |-> FrameBits, value |-> p,
                       gain_pulses |-> GainPulses(gain), j |-> GainPulses(gain),
                       pulses |-> FrameBits + GainPulses(gain),
                       bits |-> [k \in 1..FrameBits |-> Bit(p, FrameBits - k)],
                       gain_seen |-> gain]
                 ELSE NoFrame]
    /\ raw = [t \in Threads |-> 0]
    /\ values = [t \in Threads |-> <<>>]
    /\ result = [t \in Threads |-> NoResult]
    /\ calls = 1
    /\ lastDriver = MainThread
    /\ lastPowerEdge = "none"
    /\ log = [t \in Threads |->
                IF t = MainThread THEN <<[kind |-> "active", val |-> 0]>> ELSE <<>>]
    /\ lastSet = [t \in Threads |-> 0]
    /\ latchedPulses = GainPulses(gain)

NextDecode == \E t \in Threads : RrDecode(t)

SpecDecode == InitDecode /\ [][NextDecode]_vars

\* ------------------------------------------------------------ vocabulary
FramePcs == {"rr_wait", "rr_high", "rr_low", "rr_sample", "rr_match",
             "rr_ghigh", "rr_glow", "rr_decode"}
TarePcs == {"tare_check", "tare_acq", "tare_loop", "tare_got", "tare_rel",
            "tare_store", "tare_ret"}
CalPcs == {"cal_check", "cal_acq", "cal_loop", "cal_got", "cal_rel",
           "cal_store", "cal_ret"}
GwPcs == {"gw_check", "gw_acq", "gw_compute", "gw_rel"}

\* the position of thread t in the public method it is executing
OuterPc(t) == IF stack[t] = <<>> THEN pc[t] ELSE stack[t][Len(stack[t])]
InSampling(t) == OuterPc(t) \in TarePcs \cup CalPcs \cup GwPcs

\* t has issued the first clock write of a frame and not yet the last
MidFrame(t) ==
    \/ pc[t] \in {"rr_low", "rr_sample", "rr_match", "rr_ghigh", "rr_glow"}
    \/ pc[t] = "rr_high" /\ fr[t].pulses > 0

\* t is between the two clock writes of the power-down edge
MidPowerEdge(t) == pc[t] = "pd_down_high"

\* t starts a frame read that tare, calibrate or get_weight asked for
BeginsSampleFrame(t) ==
    /\ pc[t] = "rr_wait"
    /\ Head(stack[t]) \in {"tare_got", "cal_got", "gw_compute"}

IsSample(e) == e.kind = "sample"
IsWake(e) == e.kind = "wake"
\* the frames of the operation of t that were read as samples / by a wake
SampleFrames(t) == SelectSeq(log[t], IsSample)
WakeFrames(t) == SelectSeq(log[t], IsWake)

\* ------------------------------------------------------------------ C1
\* the positions at which a thread writes the clock pin or samples the data pin
ClockSectionPcs ==
    (FramePcs \ {"rr_wait"}) \cup
    {"pd_down_low", "pd_down_high", "pd_down_rel", "pd_up_low", "pd_up_read", "pd_up_rel"}

\* C1: the clock line has one driver at a time.  While a thread is between
\* the first and the last clock write of a frame, or between the two writes of
\* the power-down edge, it is the only thread inside a section that drives
\* the clock or samples the data line, and the last write of the clock line
\* is its own: no other thread has written the clock since its frame began.
C1_OneDriver ==
    /\ \A t \in Threads : (MidFrame(t) \/ MidPowerEdge(t)) => lastDriver = t
    /\ \A t, u \in Threads :
         (t # u /\ (MidFrame(t) \/ MidPowerEdge(t))) => pc[u] \notin ClockSectionPcs

\* a frame of thread 1 is half clocked while thread 2 waits for the lock to
\* drive the power-down edge
C1_Witness ==
    /\ MidFrame(1) /\ fr[1].pulses = 12
    /\ pc[2] = "pd_down_acq"

\* ------------------------------------------------------------------ C2
\* C2: whenever tare, calibrate or get_weight begins a frame read, the
\* power-down flag is false and the last power transition driven on the
\* clock line is not the power-down edge.
C2_SampleOnlyWhenAwake ==
    \A t \in Threads :
        BeginsSampleFrame(t) => (~power_down /\ lastPowerEdge # "down")

\* ------------------------------------------------------------------ C3
\* the offsets that calibrate subtracted from its samples so far
OffsetsUsed(t) ==
    {SampleFrames(t)[k].val - values[t][k] : k \in 1..Len(values[t])}

\* C3: every sample of one calibrate call is adjusted by the same offset.
C3_CalibrateOneOffset ==
    \A t \in Threads :
        pc[t] \in CalPcs => Cardinality(OffsetsUsed(t)) <= 1

\* ------------------------------------------------------------------ C7
\* the pulse count the claim gives for a gain
ClaimedPulses(g) == IF g = 128 THEN 1 ELSE IF g = 64 THEN 3 ELSE 2

\* C7: the shape of a frame.  Each of the first 24 pulses (high, then low) is
\* followed by one sample, the k-th sample is bit 23-k of the accumulated
\* pattern, the 1, 3 or 2 trailing pulses for gain 128, 64 or 32 come after
\* the 24 samples and are not sampled, and when all pulses are out (the read
\* is about to return) the count is 24 + N and the clock is low.
C7_FrameShape ==
    \A t \in Threads :
        LET f == fr[t] IN
        /\ pc[t] \in FramePcs \ {"rr_wait"} =>
             /\ Len(f.bits) = f.i
             /\ f.i <= FrameBits
        /\ pc[t] = "rr_high" => f.pulses = f.i /\ f.i < FrameBits
        /\ pc[t] = "rr_low" => f.pulses = f.i /\ f.i < FrameBits /\ sck = HIGH
        /\ pc[t] = "rr_sample" => f.pulses = f.i + 1 /\ sck = LOW
        /\ pc[t] = "rr_match" => f.pulses = FrameBits /\ f.i = FrameBits
        /\ pc[t] \in {"rr_ghigh", "rr_glow"} =>
             /\ f.i = FrameBits
             /\ f.gain_pulses = ClaimedPulses(f.gain_seen)
             /\ f.pulses = FrameBits + f.j
             /\ f.j < f.gain_pulses
             /\ pc[t] = "rr_glow" => sck = HIGH
        /\ pc[t] = "rr_decode" =>
             /\ f.i = FrameBits
             /\ f.gain_seen \in {128, 64, 32}
             /\ f.pulses = FrameBits + ClaimedPulses(f.gain_seen)
             /\ \A k \in 0..(FrameBits - 1) : Bit(f.value, FrameBits - 1 - k) = f.bits[k + 1]
             /\ sck = LOW

\* a frame read at gain 64 has issued its 27 pulses and holds the pattern
\* 0xFFFFFF
C7_Witness ==
    \E t \in Threads :
        /\ pc[t] = "rr_decode"
        /\ fr[t].gain_seen = 64
        /\ fr[t].pulses = 27
        /\ fr[t].value = 16777215

\* ------------------------------------------------------------------ C8
\* thread t takes the step that rejects an invalid gain
RejectsGain(t) == pc[t] = "gs_check" /\ ~(arg[t] \in {128, 64, 32}) /\ pc'[t] # pc[t]

\* thread t calls the gain setter
CallsGainSet(t) == pc[t] = "idle" /\ pc'[t] = "gs_check"

\* C8: a gain-set call with a value outside {128, 64, 32} raises ValueError
\* at once and neither the call nor the rejection changes the stored gain,
\* the power-down flag, offset, scale, the lock or the clock line.
C8_InvalidGainSetNoEffect ==
    [][\A t \in Threads :
         /\ RejectsGain(t) =>
              /\ pc'[t] = "idle"
              /\ result'[t] = Raised("gain_set", "ValueError")
         /\ (RejectsGain(t) \/ CallsGainSet(t)) =>
              UNCHANGED <<gain, power_down, offset, scale, assigned, lock,
                          sck, lastDriver, lastPowerEdge>>]_vars

\* an invalid gain was rejected while the device is powered down
C8_Witness ==
    \E t \in Threads :
        /\ result[t] = Raised("gain_set", "ValueError")
        /\ power_down
        /\ sck = HIGH
        /\ lock = NoThread

\* ------------------------------------------------------------------ C9
\* C9: when the constructor fails on an invalid gain, no attribute has been
\* assigned, no pin configured and no clock write made.
C9_CtorFailsClean ==
    \A t \in Threads :
        pc[t] = "failed" =>
            /\ result[t] = Raised("init", "ValueError")
            /\ assigned = {}
            /\ ~pinsSetup
            /\ lastDriver = NoThread

\* ------------------------------------------------------------------ C4
\* C4, single caller: a sampling call that finds the device powered down
\* performs the wake's discard-read exactly once, before the frame read of
\* its first sample begins, and builds its result from the sample frames
\* alone.
C4_WakeOnceBeforeSampling ==
    \A t \in Threads :
        (InSampling(t) /\ log[t] # <<>> /\ log[t][1].kind = "down") =>
            LET ws == WakeFrames(t)
                ss == SampleFrames(t)
            IN  /\ Len(ws) <= 1
                /\ (BeginsSampleFrame(t) \/ ss # <<>>) =>
                     /\ Len(ws) = 1
                     /\ log[t][2].kind = "wake"
                     /\ ~power_down
                /\ OuterPc(t) \in TarePcs =>
                     \A k \in 1..Len(values[t]) : values[t][k] = ss[k].val
                /\ OuterPc(t) \in CalPcs =>
                     \A k \in 1..Len(values[t]) : values[t][k] = ss[k].val - offset
                /\ (pc[t] = "gw_rel" /\ result[t].kind = "ok") =>
                     /\ Len(log[t]) = 3
                     /\ result[t].val = FracDiv(<<log[t][3].val - offset, 1>>, scale)

\* get_weight found the device powered down, discarded the wake frame (-1)
\* and computed the weight from the next frame (1)
C4_Witness ==
    /\ pc[MainThread] = "gw_rel"
    /\ log[MainThread] = <<[kind |-> "down", val |-> 0],
                           [kind |-> "wake", val |-> -1],
                           [kind |-> "sample", val |-> 1]>>
    /\ offset = 0
    /\ result[MainThread] = Returned("get_weight", <<1, 1>>)

\* ------------------------------------------------------------------ C5
\* C5: once the gain getter has returned, the device is awake: the
\* power-down flag is false and the wake transition has left the clock low.
C5_GainGetterWakes ==
    \A t \in Threads :
        result[t].op = "gain_get" =>
            (~power_down /\ lastPowerEdge # "down" /\ sck = LOW)

\* ------------------------------------------------------------------ C6
\* C6: the value _read_raw returns for the accumulated 24-bit pattern p is p
\* when bit 23 of p is 0 and p - 2^24 when it is 1, and lies in
\* [-8388608, 8388607]; 0x000001 gives 1, 0xFFFFFF gives -1, 0x800000 gives
\* -8388608.
C6_TwosComplement ==
    [][\A t \in Threads :
         (pc[t] = "rr_decode" /\ pc'[t] # "rr_decode") =>
             LET p == fr[t].value
                 r == raw'[t]
             IN  /\ p \in 0..16777215
                 /\ r = (IF Bit(p, 23) = 0 THEN p ELSE p - 16777216)
                 /\ r >= -8388608 /\ r <= 8388607
                 /\ (p = 1) => (r = 1)
                 /\ (p = 16777215) => (r = -1)
                 /\ (p = 8388608) => (r = -8388608)]_vars

\* the pattern 0x800000 has been decoded to -8388608
C6_Witness ==
    \E t \in Threads :
        /\ pc[t] = "gw_compute"
        /\ raw[t] = -8388608
        /\ log[t][Len(log[t])] = [kind |-> "sample", val |-> -8388608]

\* ----------------------------------------------------------------- C10
\* C10, single caller: what the gain getter returns is the value of the last
\* gain-set call that returned normally.
C10_GainRoundTrip ==
    \A t \in Threads :
        (result[t].op = "gain_get" /\ lastSet[t] # 0) =>
            result[t] = Returned("gain_get", <<lastSet[t], 1>>)

\* the device was powered down, gain-set(32) stored 32 and woke the device,
\* and the getter then returned 32
C10_Witness ==
    /\ result[MainThread] = Returned("gain_get", <<32, 1>>)
    /\ lastSet[MainThread] = 32
    /\ lastPowerEdge = "wake"

\* ----------------------------------------------------------------- C11
\* the largest samples argument of the tare calls examined on their own
MaxTare == 5
\* raw values the frames of such a call returned (outlier and negative included)
TareReadings == {-13, 9, 10, 11, 12, 1000}

\* One tare call on its own, single caller, samples >= 1.  Either the call has
\* just been made (device active or powered down, any gain), or it is in its
\* with block and the comprehension of line 96 has collected all its frames,
\* which returned any values of TareReadings.
InitTare ==
    /\ assigned = {"dt", "sck", "_gain", "offset", "scale", "_power_down", "_lock"}
    /\ gain \in ValidGains
    /\ offset = 0
    /\ scale = <<1, 1>>
    /\ pinsSetup = TRUE
    /\ chipData = 0
    /\ stack = [t \in Threads |-> <<>>]
    /\ arg = [t \in Threads |-> 0]
    /\ pdval = [t \in Threads |-> FALSE]
    /\ fr = [t \in Threads |-> NoFrame]
    /\ raw = [t \in Threads |-> 0]
    /\ result = [t \in Threads |-> NoResult]
    /\ calls = 1
    /\ lastDriver = MainThread
    /\ lastSet = [t \in Threads |-> 0]
    /\ latchedPulses = GainPulses(gain)
    /\ \E n \in 1..MaxTare :
         /\ nsamp = [t \in Threads |-> IF t = MainThread THEN n ELSE 0]
         /\ \/ /\ power_down \in BOOLEAN
               /\ lock = NoThread
               /\ sck = (IF power_down THEN HIGH ELSE LOW)
               /\ lastPowerEdge = (IF power_down THEN "down" ELSE "none")
               /\ pc = [t \in Threads |-> IF t = MainThread THEN "tare_check" ELSE "idle"]
               /\ values = [t \in Threads |-> <<>>]
               /\ log = [t \in Threads |->
                           IF t = MainThread
                           THEN <<[kind |-> IF power_down THEN "down" ELSE "active",
                                   val |-> 0]>>
                           ELSE <<>>]
            \/ /\ power_down = FALSE
               /\ lock = MainThread
               /\ sck = LOW
               /\ lastPowerEdge = "none"
               /\ pc = [t \in Threads |-> IF t = MainThread THEN "tare_loop" ELSE "idle"]
               /\ \E vs \in [1..n -> TareReadings] :
                    /\ values = [t \in Threads |->
                                   IF t = MainThread THEN [k \in 1..n |-> vs[k]] ELSE <<>>]
                    /\ log = [t \in Threads |->
                                IF t = MainThread
                                THEN <<[kind |-> "active", val |-> 0]>> \o
                                     [k \in 1..n |-> [kind |-> "sample", val |-> vs[k]]]
                                ELSE <<>>]

NextTare ==
    \/ TareCheck(MainThread)
    \/ TareAcquire(MainThread)
    \/ TareLoop(MainThread)
    \/ TareGot(MainThread)
    \/ TareRelease(MainThread)
    \/ TareStore(MainThread)
    \/ TareReturn(MainThread)
    \/ ReadRaw(MainThread)
    \/ PdCmp(MainThread)
    \/ PdUpAcquire(MainThread)
    \/ PdUpLow(MainThread)
    \/ PdUpRead(MainThread)
    \/ PdUpRelease(MainThread)
    \/ PdStore(MainThread)

SpecTare == InitTare /\ [][NextTare]_vars

\* m is the r-th smallest element of the list s
HasRank(s, m, r) ==
    /\ \E k \in 1..Len(s) : s[k] = m
    /\ Cardinality({k \in 1..Len(s) : s[k] < m}) < r
    /\ r <= Cardinality({k \in 1..Len(s) : s[k] <= m})

\* x / 2 rounded toward zero
HalfTowardZero(x) == IF x >= 0 THEN x \div 2 ELSE -((-x) \div 2)

\* m is the integer median of the non-empty list s: the middle value of the
\* sorted list for an odd length, the mean of the two middle values cut to an
\* integer for an even one
IsIntMedian(s, m) ==
    LET n == Len(s) IN
    IF n % 2 = 1
    THEN HasRank(s, m, (n + 1) \div 2)
    ELSE \E a, b \in 1..n :
            /\ HasRank(s, s[a], n \div 2)
            /\ HasRank(s, s[b], n \div 2 + 1)
            /\ m = HalfTowardZero(s[a] + s[b])

\* the values of the frames a call read as samples, in order
SampleVals(t) == [k \in 1..Len(SampleFrames(t)) |-> SampleFrames(t)[k].val]

\* C11 (state part): tare(samples = n), n >= 1, single caller.  The frames are
\* read one after the other while the caller holds the lock; when the with
\* block is left exactly n sample frames have been read (after one wake frame
\* if the call found the device powered down) and the list holds their values
\* in order; the offset stored is the integer median of the n values (11 for
\* [10,12,11,1000,9]) and the value returned is that offset.
C11_TareState ==
    \A t \in Threads :
        /\ OuterPc(t) \in {"tare_loop", "tare_got", "tare_rel"} =>
             /\ lock = t
             /\ Len(values[t]) <= nsamp[t]
        /\ pc[t] \in {"tare_loop", "tare_rel", "tare_store", "tare_ret"} =>
             /\ Len(SampleFrames(t)) = Len(values[t])
             /\ \A k \in 1..Len(values[t]) : values[t][k] = SampleVals(t)[k]
        /\ pc[t] \in {"tare_rel", "tare_store", "tare_ret"} =>
             /\ Len(values[t]) = nsamp[t]
             /\ Len(log[t]) = 1 + nsamp[t] + (IF log[t][1].kind = "down" THEN 1 ELSE 0)
        /\ pc[t] \in {"tare_store", "tare_ret"} => lock = NoThread
        /\ pc[t] = "tare_ret" =>
             /\ IsIntMedian(values[t], offset)
             /\ values[t] = <<10, 12, 11, 1000, 9>> => offset = 11
        /\ result[t].op = "tare" => result[t] = Returned("tare", <<offset, 1>>)

\* C11 (step part): the lock is taken for the samples once, before the first
\* frame, and given back once, after the n-th; no step of tare changes scale
\* or gain, and only the step of line 97 changes offset.
C11_TareStep ==
    \A t \in Threads :
        /\ (lock # t /\ lock' = t /\ pc[t] # "pd_up_acq") =>
             (pc[t] = "tare_acq" /\ SampleFrames(t) = <<>> /\ values[t] = <<>>)
        /\ (lock = t /\ lock' # t /\ pc[t] # "pd_up_rel") =>
             (pc[t] = "tare_rel" /\ Len(SampleFrames(t)) = nsamp[t])
        /\ UNCHANGED <<gain, scale>>
        /\ offset' # offset => (\E u \in Threads : pc[u] = "tare_store")

\* C11: tare(samples = n) for n >= 1: n frames read sequentially under one
\* lock acquisition, offset set to the integer median of the n values and
\* returned, scale and gain unchanged.
C11_TareMedian == []C11_TareState /\ [][C11_TareStep]_vars

\* tare(samples = 5) read 10, 12, 11, 1000, 9 and stored 11
C11_Witness ==
    /\ pc[MainThread] = "tare_ret"
    /\ values[MainThread] = <<10, 12, 11, 1000, 9>>
    /\ offset = 11
    /\ lock = NoThread

\* ----------------------------------------------------------------- C12
\* offsets, scales and raw values of the get_weight calls examined on their own
WeightOffsets == {0, 11, -5}
WeightScales == {<<1, 1>>, <<2, 1>>, <<-1, 2>>, <<0, 1>>}
WeightReadings == {111, 12, 0, -1, 8388607, -8388608}

\* One get_weight call on its own, single caller, device active, any gain,
\* offset and scale as earlier tare and calibrate calls left them.  Either the
\* call has just been made, or its frame read has returned any value of
\* WeightReadings and line 128 is about to compute.
InitWeight ==
    /\ assigned = {"dt", "sck", "_gain", "offset", "scale", "_power_down", "_lock"}
    /\ gain \in ValidGains
    /\ offset \in WeightOffsets
    /\ scale \in WeightScales
    /\ power_down = FALSE
    /\ sck = LOW
    /\ pinsSetup = TRUE
    /\ chipData = 0
    /\ stack = [t \in Threads |-> <<>>]
    /\ arg = [t \in Threads |-> 0]
    /\ nsamp = [t \in Threads |-> 0]
    /\ pdval = [t \in Threads |-> FALSE]
    /\ fr = [t \in Threads |-> NoFrame]
    /\ values = [t \in Threads |-> <<>>]
    /\ result = [t \in Threads |-> NoResult]
    /\ calls = 1
    /\ lastDriver = MainThread
    /\ lastPowerEdge = "none"
    /\ lastSet = [t \in Threads |-> 0]
    /\ latchedPulses = GainPulses(gain)
    /\ \/ /\ lock = NoThread
          /\ pc = [t \in Threads |-> IF t = MainThread THEN "gw_check" ELSE "idle"]
          /\ raw = [t \in Threads |-> 0]
          /\ log = [t \in Threads |->
                      IF t = MainThread THEN <<[kind |-> "active", val |-> 0]>> ELSE <<>>]
       \/ /\ lock = MainThread
          /\ pc = [t \in Threads |-> IF t = MainThread THEN "gw_compute" ELSE "idle"]
          /\ \E r \in WeightReadings :
               /\ raw = [t \in Threads |-> IF t = MainThread THEN r ELSE 0]
               /\ log = [t \in Threads |->
                           IF t = MainThread
                           THEN <<[kind |-> "active", val |-> 0],
                                  [kind |-> "sample", val |-> r]>>
                           ELSE <<>>]

NextWeight ==
    \/ GwCheck(MainThread)
    \/ GwAcquire(MainThread)
    \/ GwCompute(MainThread)
    \/ GwRelease(MainThread)
    \/ ReadRaw(MainThread)

SpecWeight == InitWeight /\ [][NextWeight]_vars

\* the fraction v is x / y (y a non-zero fraction), by cross-multiplication
IsQuotient(v, x, y) == v[2] > 0 /\ v[1] * y[1] = x * y[2] * v[2]

\* C12 (state part): get_weight on an active device, single caller.  When
\* line 128 has computed, the call has read exactly one frame, holds the lock,
\* and its outcome is (raw - offset) / scale for that frame and the current
\* offset and scale (50 for offset 11, scale 2, raw 111), a ZeroDivisionError
\* when scale is 0; the outcome the caller gets is that one.
C12_WeightState ==
    \A t \in Threads :
        /\ pc[t] \in {"gw_compute", "gw_rel"} =>
             /\ lock = t
             /\ Len(log[t]) = 2
             /\ log[t][2].kind = "sample"
        /\ pc[t] = "gw_compute" => raw[t] = log[t][2].val
        /\ pc[t] = "gw_rel" =>
             /\ result[t].op = "get_weight"
             /\ scale[1] # 0 =>
                  /\ result[t].kind = "ok"
                  /\ IsQuotient(result[t].val, log[t][2].val - offset, scale)
             /\ scale[1] = 0 => result[t].kind = "ZeroDivisionError"
             /\ (offset = 11 /\ scale = <<2, 1>> /\ log[t][2].val = 111) =>
                  result[t] = Returned("get_weight", <<50, 1>>)
        /\ (pc[t] = "idle" /\ result[t].op = "get_weight") =>
             /\ lock = NoThread
             /\ result[t].kind = (IF scale[1] = 0 THEN "ZeroDivisionError" ELSE "ok")

\* C12 (step part): the lock is taken once, before the frame, and given back
\* once, after the computation, with the outcome computed at line 128; no
\* step changes offset, scale, gain or the power-down flag.
C12_WeightStep ==
    \A t \in Threads :
        /\ (lock # t /\ lock' = t) => (pc[t] = "gw_acq" /\ Len(log[t]) = 1)
        /\ (lock = t /\ lock' # t) =>
             (pc[t] = "gw_rel" /\ pc'[t] = "idle" /\ result'[t] = result[t])
        /\ UNCHANGED <<offset, scale, gain, power_down>>

\* C12: get_weight on an active device reads one frame under one lock
\* acquisition, returns (raw - offset) / scale for it and changes none of
\* offset, scale, gain and the power-down flag.
C12_WeightOneFrame == []C12_WeightState /\ [][C12_WeightStep]_vars

\* offset 11, scale 2, raw 111: get_weight returned 50
C12_Witness ==
    /\ pc[MainThread] = "idle"
    /\ result[MainThread] = Returned("get_weight", <<50, 1>>)
    /\ offset = 11
    /\ scale = <<2, 1>>
    /\ lock = NoThread

\* ----------------------------------------------------------------- C13
\* thread t is inside a calibrate call whose reference weight is 0
InZeroCalibrate(t) == OuterPc(t) \in CalPcs /\ arg[t] = 0

\* C13 (step part), single caller: no step of a calibrate call with
\* reference weight 0, the call itself included, changes scale, offset or
\* gain; the step of line 116 ends the call with ZeroDivisionError (with the
\* StatisticsError of the empty median when samples = 0, which is raised
\* before the division), and the lock is free at that step and after it.
C13_ZeroWeightStep ==
    \A t \in Threads :
        /\ (InZeroCalibrate(t) \/ (pc[t] = "idle" /\ pc'[t] = "cal_check" /\ arg'[t] = 0)) =>
             UNCHANGED <<scale, offset, gain>>
        /\ (InZeroCalibrate(t) /\ pc[t] = "cal_store" /\ pc'[t] # "cal_store") =>
             /\ pc'[t] = "idle"
             /\ result'[t] = Raised("calibrate",
                                    IF nsamp[t] >= 1 THEN "ZeroDivisionError"
                                                     ELSE "StatisticsError")
             /\ lock = NoThread
             /\ lock' = NoThread

\* C13 as stated: every calibrate call with reference weight 0, whatever its
\* samples argument, ends with ZeroDivisionError, scale, offset and gain as
\* they were and the lock free.
C13_ZeroWeightAlwaysDivError ==
    [][\A t \in Threads :
         /\ (InZeroCalibrate(t) \/ (pc[t] = "idle" /\ pc'[t] = "cal_check" /\ arg'[t] = 0)) =>
              UNCHANGED <<scale, offset, gain>>
         /\ (InZeroCalibrate(t) /\ pc[t] = "cal_store" /\ pc'[t] # "cal_store") =>
              /\ pc'[t] = "idle"
              /\ result'[t] = Raised("calibrate", "ZeroDivisionError")
              /\ lock = NoThread
              /\ lock' = NoThread]_vars

\* C13 amended: calibrate with reference weight 0 and samples >= 1 raises
\* ZeroDivisionError (with samples = 0 the StatisticsError of the empty
\* median), leaves scale, offset and gain as they were and the lock free; the
\* scale stored is at no time an infinite or undefined number (a fraction
\* with denominator 0).
C13_ZeroWeightRaises == [](scale[2] > 0) /\ [][C13_ZeroWeightStep]_vars

\* calibrate(2) stored the scale 1/2, then calibrate(0) raised and the scale
\* is still 1/2
C13_Witness ==
    /\ result[MainThread] = Raised("calibrate", "ZeroDivisionError")
    /\ pc[MainThread] = "idle"
    /\ scale = <<1, 2>>
    /\ lock = NoThread

\* ----------------------------------------------------------------- C14
\* thread t is inside a call that assigns the power_down property
InPdSet(t) == OuterPc(t) = "pd_done"
\* the value that call assigns, and the power-down state the call found
PdRequested(t) == arg[t] = 1
PdFound(t) == log[t][1].kind = "down"

\* C14 (state part), single caller.  Inside a power_down assignment: the
\* clock is low before the high write of the power-down edge and high after
\* it, both under the lock; the wake drives the clock low and reads its one
\* discard frame under the lock it took, and the clock is low after it; when
\* the setter has returned the lock is free, a same-value assignment has
\* read nothing, the power-down edge has read nothing and left the clock
\* high, the wake has read one frame and left the clock low.  Between
\* operations the clock is high exactly when the power-down flag is true.
C14_PowerState ==
    \A t \in Threads :
        /\ InPdSet(t) =>
             /\ pc[t] \in {"pd_down_low", "pd_down_high", "pd_down_rel"} =>
                  (lock = t /\ PdRequested(t) /\ ~PdFound(t) /\ Len(log[t]) = 1)
             /\ pc[t] = "pd_down_high" => (sck = LOW /\ lastDriver = t)
             /\ pc[t] = "pd_down_rel" => (sck = HIGH /\ lastDriver = t)
             /\ (pc[t] \in {"pd_up_low", "pd_up_read", "pd_up_rel"} \/ pc[t] \in FramePcs) =>
                  (lock = t /\ ~PdRequested(t) /\ PdFound(t))
             /\ pc[t] \in {"pd_up_low", "pd_up_read"} \/ pc[t] \in FramePcs => Len(log[t]) = 1
             /\ pc[t] \in {"pd_up_read", "pd_up_rel"} => (sck = LOW /\ lastDriver = t)
             /\ pc[t] = "pd_up_rel" => (Len(log[t]) = 2 /\ log[t][2].kind = "wake")
             /\ pc[t] = "pd_done" =>
                  /\ lock = NoThread
                  /\ power_down = PdRequested(t)
                  /\ sck = (IF power_down THEN HIGH ELSE LOW)
                  /\ Len(log[t]) = (IF PdFound(t) /\ ~PdRequested(t) THEN 2 ELSE 1)
        /\ (\A u \in Threads : pc[u] = "idle") => (sck = HIGH <=> power_down)

\* C14 (step part), single caller.  An assignment of the current value makes
\* no clock write and takes no lock; in the other assignments the lock is
\* taken once, at the start of the transition, and given back once, at its
\* end, and the clock is written only under that lock.
C14_PowerStep ==
    \A t \in Threads :
        InPdSet(t) =>
            /\ (PdRequested(t) = PdFound(t)) => UNCHANGED <<sck, lastDriver, lock, lastPowerEdge>>
            /\ (lock # t /\ lock' = t) =>
                 (pc[t] \in {"pd_down_acq", "pd_up_acq"} /\ Len(log[t]) = 1)
            /\ (lock = t /\ lock' # t) => pc[t] \in {"pd_down_rel", "pd_up_rel"}
            /\ (sck' # sck \/ lastDriver' # lastDriver) => lock = t
            /\ (sck' # sck /\ PdRequested(t)) => pc[t] = "pd_down_high"
            /\ (sck' # sck /\ ~PdRequested(t)) => pc[t] \in {"pd_up_low"} \cup FramePcs

\* C14: the steps of the power state machine (same value: nothing; power
\* down: clock low then high under the lock, left high; wake: clock low then
\* one discard-read under the same lock, left low) and, for a single caller,
\* clock high between operations exactly when the power-down flag is true.
C14_PowerMachine == []C14_PowerState /\ [][C14_PowerStep]_vars

\* power_down = False on a powered-down device: the wake read one frame and
\* left the clock low
C14_Witness ==
    /\ pc[MainThread] = "pd_done"
    /\ log[MainThread] = <<[kind |-> "down", val |-> 0], [kind |-> "wake", val |-> -1]>>
    /\ sck = LOW
    /\ ~power_down
    /\ lock = NoThread

\* ----------------------------------------------------------------- C15
GsPcs == {"gs_check", "gs_cmp", "gs_store", "gs_pdcheck", "gs_acq", "gs_rel"}
\* thread t is inside a call that assigns the gain property
InGainSet(t) == OuterPc(t) \in GsPcs
\* the call in progress in thread t returns to position l
ReturnsTo(t, l) == stack[t] # <<>> /\ Head(stack[t]) = l
IsFlush(e) == e.kind = "flush"
\* the frames the gain setter read for itself (line 153)
FlushFrames(t) == SelectSeq(log[t], IsFlush)

\* C15 (state part), single caller, value valid and different from the
\* current gain.  The new gain is stored before anything else is done; the
\* wake transition has been performed when the setter reaches its own with
\* block if and only if the call found the device powered down; the setter
\* then reads one frame under the lock, and that frame has the trailing
\* pulses of the new gain.
C15_GainSetState ==
    \A t \in Threads :
        InGainSet(t) =>
            /\ pc[t] \notin {"gs_check", "gs_cmp", "gs_store"} => gain = arg[t]
            /\ pc[t] \in {"gs_check", "gs_cmp", "gs_store", "gs_pdcheck"} => Len(log[t]) = 1
            /\ (pc[t] = "gs_acq" \/ ReturnsTo(t, "gs_rel") \/ pc[t] = "gs_rel") =>
                 /\ ~power_down
                 /\ Len(WakeFrames(t)) = (IF PdFound(t) THEN 1 ELSE 0)
                 /\ PdFound(t) => log[t][2].kind = "wake"
            /\ (pc[t] \in FramePcs /\ ReturnsTo(t, "gs_rel")) =>
                 /\ lock = t
                 /\ FlushFrames(t) = <<>>
            /\ (pc[t] = "rr_decode" /\ ReturnsTo(t, "gs_rel")) =>
                 /\ fr[t].gain_seen = arg[t]
                 /\ fr[t].pulses = FrameBits + ClaimedPulses(arg[t])
            /\ pc[t] = "gs_rel" =>
                 /\ lock = t
                 /\ Len(FlushFrames(t)) = 1
                 /\ log[t][Len(log[t])].kind = "flush"
                 /\ SampleFrames(t) = <<>>
                 /\ sck = LOW

\* C15 (step part), single caller.  The call and the checks of lines 145 and
\* 147 change nothing; when the value equals the stored gain the setter
\* returns from line 148 at once: no clock write, no lock, no wake, powered
\* down or not.  Otherwise line 149 stores the value.
C15_GainSetStep ==
    \A t \in Threads :
        /\ ((pc[t] = "idle" /\ pc'[t] = "gs_check") \/ pc[t] \in {"gs_check", "gs_cmp"}) =>
             UNCHANGED <<gain, power_down, lock, sck, lastDriver, lastPowerEdge>>
        /\ (pc[t] = "gs_cmp" /\ pc'[t] # "gs_cmp") =>
             IF arg[t] = gain
             THEN pc'[t] = "idle" /\ result'[t] = Returned("gain_set", <<gain, 1>>)
             ELSE pc'[t] = "gs_store"
        /\ (pc[t] = "gs_store" /\ pc'[t] # "gs_store") =>
             (gain' = arg[t] /\ UNCHANGED <<power_down, lock, sck, lastDriver>>)
        /\ (InGainSet(t) /\ lock = t /\ lock' # t /\ pc[t] # "pd_up_rel") =>
             (pc[t] = "gs_rel" /\ pc'[t] = "idle")

\* C15: gain set to the current gain is a no-op (no pulse, no lock, no wake,
\* powered down or not); gain set to another valid value stores it, wakes the
\* device iff it was powered down, then reads exactly one discard frame under
\* the lock with the trailing pulses of the new gain.
C15_GainSetMachine == []C15_GainSetState /\ [][C15_GainSetStep]_vars

\* gain = 64 on a powered-down device: 64 stored, one wake frame, one flush
\* frame
C15_Witness ==
    /\ pc[MainThread] = "gs_rel"
    /\ arg[MainThread] = 64
    /\ gain = 64
    /\ log[MainThread] = <<[kind |-> "down", val |-> 0], [kind |-> "wake", val |-> 1],
                           [kind |-> "flush", val |-> -1]>>

\* ----------------------------------------------------------------- C16
\* no thread is inside __init__ or a public method
Quiescent == \A t \in Threads : pc[t] = "idle"

\* C16: whenever the instance is constructed, no operation is in progress
\* and the device is active, the trailing pulses of the most recent frame
\* read are those of the stored gain: 1 for 128, 3 for 64, 2 for 32.
C16_LatchedIsStored ==
    (Quiescent /\ ~power_down) => latchedPulses = ClaimedPulses(gain)

\* the device was powered down, a gain-set call stored 64, woke it and read
\* its flush frame: both calls are complete and the last frame had 3 trailing
\* pulses
C16_Witness ==
    /\ Quiescent
    /\ ~power_down
    /\ lastPowerEdge = "wake"
    /\ gain = 64
    /\ latchedPulses = 3
    /\ \E t \in Threads : lastSet[t] = 64 /\ result[t].op = "gain_set"

\* ----------------------------------------------------------------- C17
\* the steps of thread t inside the public methods: everything but the
\* decision of a caller to invoke a method
Progress(t) ==
    \/ ReadRaw(t)
    \/ PdCmp(t) \/ PdDownAcquire(t) \/ PdDownLow(t) \/ PdDownHigh(t)
    \/ PdDownRelease(t) \/ PdUpAcquire(t) \/ PdUpLow(t) \/ PdUpRead(t)
    \/ PdUpRelease(t) \/ PdStore(t) \/ PdDone(t)
    \/ TareCheck(t) \/ TareAcquire(t) \/ TareLoop(t) \/ TareGot(t)
    \/ TareRelease(t) \/ TareStore(t) \/ TareReturn(t)
    \/ CalCheck(t) \/ CalAcquire(t) \/ CalLoop(t) \/ CalGot(t)
    \/ CalRelease(t) \/ CalStore(t) \/ CalReturn(t)
    \/ GwCheck(t) \/ GwAcquire(t) \/ GwCompute(t) \/ GwRelease(t)
    \/ GsCheck(t) \/ GsCmp(t) \/ GsStore(t) \/ GsPdCheck(t)
    \/ GsAcquire(t) \/ GsRelease(t)

\* the calls the threads make at the same time: tare(1), calibrate(2, 1),
\* get_weight(), gain = 64, power_down = True, power_down = False
LiveCalls ==
    <<[entry |-> "tare_check", arg |-> 0, nsamp |-> 1, pdval |-> FALSE, back |-> <<>>],
      [entry |-> "cal_check", arg |-> 2, nsamp |-> 1, pdval |-> FALSE, back |-> <<>>],
      [entry |-> "gw_check", arg |-> 0, nsamp |-> 0, pdval |-> FALSE, back |-> <<>>],
      [entry |-> "gs_check", arg |-> 64, nsamp |-> 0, pdval |-> FALSE, back |-> <<>>],
      [entry |-> "pd_cmp", arg |-> 1, nsamp |-> 0, pdval |-> TRUE, back |-> <<"pd_done">>],
      [entry |-> "pd_cmp", arg |-> 0, nsamp |-> 0, pdval |-> FALSE, back |-> <<"pd_done">>]>>

\* The instance is constructed with the default gain, active or powered
\* down, and every thread has just invoked one of LiveCalls (the threads are
\* interchangeable: the calls are taken in the order of the list).
InitLive ==
    /\ assigned = {"dt", "sck", "_gain", "offset", "scale", "_power_down", "_lock"}
    /\ gain = 128
    /\ offset = 0
    /\ scale = <<1, 1>>
    /\ power_down \in BOOLEAN
    /\ lock = NoThread
    /\ sck = (IF power_down THEN HIGH ELSE LOW)
    /\ pinsSetup = TRUE
    /\ chipData = 0
    /\ \E c \in [Threads -> 1..Len(LiveCalls)] :
         /\ \A t, u \in Threads : t <= u => c[t] <= c[u]
         /\ pc = [t \in Threads |-> LiveCalls[c[t]].entry]
         /\ stack = [t \in Threads |-> LiveCalls[c[t]].back]
         /\ arg = [t \in Threads |-> LiveCalls[c[t]].arg]
         /\ nsamp = [t \in Threads |-> LiveCalls[c[t]].nsamp]
         /\ pdval = [t \in Threads |-> LiveCalls[c[t]].pdval]
    /\ fr = [t \in Threads |-> NoFrame]
    /\ raw = [t \in Threads |-> 0]
    /\ values = [t \in Threads |-> <<>>]
    /\ result = [t \in Threads |-> NoResult]
    /\ calls = NumThreads
    /\ lastDriver = MainThread
    /\ lastPowerEdge = (IF power_down THEN "down" ELSE "none")
    /\ log = [t \in Threads |->
                <<[kind |-> IF power_down THEN "down" ELSE "active", val |-> 0]>>]
    /\ lastSet = [t \in Threads |-> 0]
    /\ latchedPulses = GainPulses(gain)

NextLive == \E t \in Threads : Progress(t)

\* Threads are scheduled fairly and the data line reads low eventually each
\* time _read_raw waits for it (at the wait the only step of the thread that
\* changes the state is the one that finds the line low).
Fairness == \A t \in Threads : WF_vars(Progress(t))

SpecLive == InitLive /\ [][NextLive]_vars /\ Fairness

\* the positions at which a thread enters a with block
AcquirePcs == {"pd_down_acq", "pd_up_acq", "tare_acq", "cal_acq", "gw_acq", "gs_acq"}

\* thread t is inside a public method
InCall(t) ==
    /\ pc[t] \notin {"unborn", "idle", "failed"}
    /\ OuterPc(t) \notin {"init_pins", "init_check", "init_fields", "init_gpio",
                          "init_read", "init_done"}

\* C17 (state part): a thread about to enter a with block does not hold the
\* lock; a thread inside a call can always take a step unless it waits for
\* the lock (held by another thread) or for the data line.
C17_NoReentry ==
    \A t \in Threads :
        /\ pc[t] \in AcquirePcs => lock # t
        /\ (InCall(t) /\ ~(pc[t] \in AcquirePcs /\ lock # NoThread)) => ENABLED <<Progress(t)>>_vars

\* C17: no reentrant acquisition, and under fair scheduling with a data line
\* that eventually reads low every invoked tare, calibrate, get_weight,
\* gain-set and power_down-set call returns.
C17_CallsReturn ==
    /\ []C17_NoReentry
    /\ \A t \in Threads : InCall(t) ~> (pc[t] = "idle")

\* one thread waits for the lock at the entry of get_weight's with block
\* while the other is reading the frames of tare
C17_Witness ==
    \E t, u \in Threads :
        /\ pc[t] = "gw_acq"
        /\ lock = u
        /\ u # t
        /\ OuterPc(u) = "tare_got"
        /\ pc[u] = "rr_wait"

\* ----------------------------------------------------------------- C18
\* the positions inside a with block
HoldPcs ==
    (FramePcs \cup {"pd_down_low", "pd_down_high", "pd_down_rel", "pd_up_low",
                    "pd_up_read", "pd_up_rel", "tare_loop", "tare_got", "tare_rel",
                    "cal_loop", "cal_got", "cal_rel", "gw_compute", "gw_rel", "gs_rel"})

\* C18: the lock is held only by a thread that is inside a with block of a
\* call in progress.  A thread whose call has ended, by a return or by an
\* error (ZeroDivisionError of get_weight with scale 0 or of calibrate with
\* reference weight 0, StatisticsError of tare or calibrate with samples = 0,
\* ValueError of the gain setter), does not hold it, and when no call is in
\* progress the lock is free.
C18_LockFreeWhenIdle ==
    /\ \A t \in Threads : lock = t => (InCall(t) /\ pc[t] \in HoldPcs)
    /\ \A t \in Threads : (pc[t] = "idle" /\ result[t].kind # "none") => lock # t
    /\ Quiescent => lock = NoThread

\* calibrate stored the scale 0, then get_weight raised ZeroDivisionError
\* inside its with block; no call is in progress and the lock is free
C18_Witness ==
    /\ Quiescent
    /\ scale = <<0, 1>>
    /\ \E t \in Threads : result[t] = Raised("get_weight", "ZeroDivisionError")
    /\ lock = NoThread

\* ----------------------------------------------------------------- C19
\* thread t has entered the with block of the wake branch (line 176) and is
\* about to drive the clock low and read the discard frame
StartsWake(t) == pc[t] = "pd_up_low"

\* C19: the wake transition is performed once per power-down: a thread
\* starts it only while the device is powered down, that is, the last power
\* transition driven on the clock line is the power-down edge and no other
\* thread has woken the device since.
C19_WakeOnce ==
    \A t \in Threads : StartsWake(t) => lastPowerEdge = "down"

\* ----------------------------------------------------------------- C20
\* The instance is constructed with the default gain and active; every thread
\* has just assigned the same valid value g to the gain property (from here
\* on calls counts the sampling calls that follow), and the callers go on
\* with tare, calibrate and get_weight calls.  No other gain-set call is made.
InitGain ==
    /\ assigned = {"dt", "sck", "_gain", "offset", "scale", "_power_down", "_lock"}
    /\ gain = 128
    /\ offset = 0
    /\ scale = <<1, 1>>
    /\ power_down = FALSE
    /\ lock = NoThread
    /\ sck = LOW
    /\ pinsSetup = TRUE
    /\ chipData = 0
    /\ pc = [t \in Threads |-> "gs_check"]
    /\ stack = [t \in Threads |-> <<>>]
    /\ \E g \in ValidGains : arg = [t \in Threads |-> g]
    /\ nsamp = [t \in Threads |-> 0]
    /\ pdval = [t \in Threads |-> FALSE]
    /\ fr = [t \in Threads |-> NoFrame]
    /\ raw = [t \in Threads |-> 0]
    /\ values = [t \in Threads |-> <<>>]
    /\ result = [t \in Threads |-> NoResult]
    /\ calls = 0
    /\ lastDriver = MainThread
    /\ lastPowerEdge = "none"
    /\ log = [t \in Threads |-> <<[kind |-> "active", val |-> 0]>>]
    /\ lastSet = [t \in Threads |-> 0]
    /\ latchedPulses = GainPulses(gain)

NextGain ==
    \E t \in Threads :
        \/ GsCheck(t) \/ GsCmp(t) \/ GsStore(t) \/ GsPdCheck(t)
        \/ GsAcquire(t) \/ GsRelease(t)
        \/ ReadRaw(t)
        \/ Tare(t)
        \/ Calibrate(t)
        \/ GetWeight(t)

SpecGain == InitGain /\ [][NextGain]_vars

\* C20: when a thread whose gain-set call with value g has returned (no
\* gain-set call with another value has been made) starts a frame read for
\* tare, calibrate or get_weight, the conversion it reads was made at gain
\* g: the trailing pulses of the last frame read before it are those of g.
C20_SamplesAtSetGain ==
    \A t \in Threads :
        (/\ BeginsSampleFrame(t)
         /\ lastSet[t] # 0
         /\ \A u \in Threads : lastSet[u] \in {0, lastSet[t]}
         /\ \A u \in Threads : InGainSet(u) => arg[u] = lastSet[t])
        => latchedPulses = ClaimedPulses(lastSet[t])

====
